---- MODULE Spec2Model ----
(***************************************************************************)
(* Model of the credential store engine of passmanager.py (class           *)
(* PasswordManager): key file, encrypted blob file, the in-memory          *)
(* database self.passwords and the public operations on it.                *)
(*                                                                         *)
(* A Python dict is a sequence of [k |-> key, v |-> value] entries in      *)
(* insertion order.  json.dumps / json.loads are a token stream and its    *)
(* parser.  A Fernet token is [iv, body, mac] where mac binds key, iv and  *)
(* body; decrypt succeeds only when the mac verifies under the key.        *)
(***************************************************************************)
EXTENDS Naturals, Sequences, FiniteSets, TLC

VARIABLES
    keyFile,    \* content of ~/.passmanager/secret.key ("none" when absent)
    blob,       \* content of the passwords file (self.file_path)
    run,        \* "down": no PasswordManager object; "up": constructed
    key,        \* self.key / self.fernet of the running object
    passwords,  \* self.passwords of the running object
    nonce,      \* number of Fernet tokens produced so far (fresh IV source)
    result,     \* the last public call: [op, call, ret, found, note, val]
    steps,      \* number of public calls made so far
    faulted,    \* whether a save has failed, the process has crashed in a save
                \* or the blob file has been altered
    peer        \* a second process on the same files, while it is not the
                \* one taking steps: its [run, key, passwords]

vars == <<keyFile, blob, run, key, passwords, nonce, result, steps, faulted, peer>>

----------------------------------------------------------------------------
(* Bounds and value domains *)

MaxOps == 2

OldKey == "k1"
Keys == {"k1", "k2"}
FreshKeys == Keys \ {OldKey}

Services == {"Mail", "github"}
Creds == {<<"alice", "s3cr3t">>, <<"Git-User", "hunter2">>}
UpdateCreds == {<<"Git-User", "hunter2">>}
None == "<None>"
AddCategories == {"Internet", "Work"}
LookupCategories == {None, "", "Internet", "Work"}
NoTags == [given |-> FALSE, list |-> <<>>]
TagArgs == {NoTags, [given |-> TRUE, list |-> <<>>], [given |-> TRUE, list |-> <<"work">>]}
AddTagArgs == {NoTags, [given |-> TRUE, list |-> <<"work">>]}
\* search_password(keyword, category, tag)
SearchCalls ==
    { <<"GIT", None, None>>, <<"Git-User", None, None>>, <<"i", None, None>>,
      <<"i", "Internet", None>>, <<"i", "", None>>, <<"i", "Work", "WORK">>,
      <<"i", None, "WORK">>, <<"i", None, "wor">>, <<"i", None, "">> }

\* self.categories, line 28 / new_categories, line 89
DefaultCategories == <<"Internet", "Gaming", "Coding", "Shopping", "Social", "Computer", "World">>
\* old_categories, lines 74 and 88
OldCategories == <<"1", "2", "3", "4">>

----------------------------------------------------------------------------
(* Python dict as an insertion-ordered sequence of entries *)

Range(seq) == {seq[i] : i \in 1..Len(seq)}

DictKeys(d) == {d[i].k : i \in 1..Len(d)}

DictHas(d, k) == k \in DictKeys(d)

DictIndex(d, k) == CHOOSE i \in 1..Len(d) : d[i].k = k

DictGet(d, k) == d[DictIndex(d, k)].v

\* d[k] = v : an existing key keeps its position, a new key goes last
DictSet(d, k, v) ==
    IF DictHas(d, k)
    THEN [d EXCEPT ![DictIndex(d, k)] = [k |-> k, v |-> v]]
    ELSE Append(d, [k |-> k, v |-> v])

\* del d[k] / d.pop(k, None)
DictDel(d, k) ==
    IF DictHas(d, k)
    THEN LET i == DictIndex(d, k) IN SubSeq(d, 1, i - 1) \o SubSeq(d, i + 1, Len(d))
    ELSE d

----------------------------------------------------------------------------
(* Values of self.passwords *)

\* kind: "nokey"   a dict without the "categories" key ({})
\*       "dict"    {"categories": {...}}
\*       "toplist" []                   (JSON of the wrong shape)
\*       "none"    no object
Obj(kind, cats) == [kind |-> kind, cats |-> cats]
NoObj == Obj("none", <<>>)

\* a record {'username': .., 'password': .., 'tags': [..]}; a key that is
\* missing from the dict has the value None (hasTags = FALSE for 'tags')
Rec(username, password, hasTags, tags) ==
    [username |-> username, password |-> password, hasTags |-> hasTags, tags |-> tags]

----------------------------------------------------------------------------
(* json.dumps / json.loads: the plaintext is a stream of tokens *)

\* mutant: the tags are left out of the serialised record
DumpsTags_dropped(r) == <<>>

DumpsTags(r) ==
    IF r.hasTags
    THEN <<<<"tags">>>> \o [i \in 1..Len(r.tags) |-> <<"tag", r.tags[i]>>]
    ELSE <<>>

DumpsRec(r) ==
    (IF r.username = None THEN <<>> ELSE <<<<"username", r.username>>>>)
    \o (IF r.password = None THEN <<>> ELSE <<<<"password", r.password>>>>)
    \o DumpsTags(r)

RECURSIVE DumpsServices(_)
DumpsServices(services) ==
    IF services = <<>> THEN <<>>
    ELSE <<<<"svc", Head(services).k>>>> \o DumpsRec(Head(services).v)
         \o DumpsServices(Tail(services))

RECURSIVE DumpsCategories(_)
DumpsCategories(cats) ==
    IF cats = <<>> THEN <<>>
    ELSE <<<<"cat", Head(cats).k>>>> \o DumpsServices(Head(cats).v)
         \o DumpsCategories(Tail(cats))

\* json.dumps(self.passwords), line 66
Dumps(pw) ==
    CASE pw.kind = "toplist" -> <<<<"arr">>>>
      [] pw.kind = "nokey"   -> <<<<"obj">>>>
      [] OTHER               -> <<<<"obj">>, <<"categories">>>> \o DumpsCategories(pw.cats)

\* one token of the category mapping applied to what is parsed so far
LoadsToken(cats, t) ==
    LET n == Len(cats)
        m == Len(cats[n].v)
    IN CASE t[1] = "cat" -> Append(cats, [k |-> t[2], v |-> <<>>])
         [] t[1] = "svc" ->
              [cats EXCEPT ![n].v = Append(@, [k |-> t[2], v |-> Rec(None, None, FALSE, <<>>)])]
         [] t[1] = "username" -> [cats EXCEPT ![n].v[m].v.username = t[2]]
         [] t[1] = "password" -> [cats EXCEPT ![n].v[m].v.password = t[2]]
         [] t[1] = "tags" -> [cats EXCEPT ![n].v[m].v.hasTags = TRUE]
         [] OTHER -> [cats EXCEPT ![n].v[m].v.tags = Append(@, t[2])]

RECURSIVE LoadsCategories(_, _, _)
LoadsCategories(toks, i, cats) ==
    IF i > Len(toks) THEN cats
    ELSE LoadsCategories(toks, i + 1, LoadsToken(cats, toks[i]))

\* json.loads(decrypted_data), line 62: [ok, val]; ok = FALSE is JSONDecodeError
Loads(toks) ==
    IF toks = <<>> \/ toks[1] \notin {<<"obj">>, <<"arr">>}
    THEN [ok |-> FALSE, val |-> NoObj]
    ELSE IF toks[1] = <<"arr">> THEN [ok |-> TRUE, val |-> Obj("toplist", <<>>)]
    ELSE IF Len(toks) = 1 THEN [ok |-> TRUE, val |-> Obj("nokey", <<>>)]
    ELSE [ok |-> TRUE, val |-> Obj("dict", LoadsCategories(toks, 3, <<>>))]

----------------------------------------------------------------------------
(* Fernet and the blob file *)

Mac(k, iv, body) == [key |-> k, iv |-> iv, body |-> body]
NoMac == Mac("", 0, <<>>)

\* st: "absent" no file; "token" a whole token; "empty" a file of zero bytes
File(st, iv, body, mac) == [st |-> st, iv |-> iv, body |-> body, mac |-> mac]
Absent == File("absent", 0, <<>>, NoMac)
Empty == File("empty", 0, <<>>, NoMac)

\* self.fernet.encrypt(...), line 66
Encrypt(k, iv, body) == File("token", iv, body, Mac(k, iv, body))

\* self.fernet.decrypt(encrypted_data), line 61: [ok, body]; ok = FALSE is InvalidToken
Decrypt(k, file) ==
    IF file.st = "token" /\ file.mac = Mac(k, file.iv, file.body)
    THEN [ok |-> TRUE, body |-> file.body]
    ELSE [ok |-> FALSE, body |-> <<>>]

SaveOutcomes == {"ok", "open_fails", "write_fails", "crash_open"}
Crashes == {"crash_open"}

\* mutant: the call returns without writing the file
save_passwords_noop(pw, file, k, iv, outcome) == file

\* mutant: the save re-reads the file and writes the records of the file it
\* finds together with the ones of the process
save_passwords_merged(pw, file, k, iv, outcome) ==
    LET d == Decrypt(k, file)
        j == Loads(d.body)
        old == IF d.ok /\ j.ok /\ j.val.kind = "dict" THEN j.val.cats ELSE <<>>
        Kept(n) == IF DictHas(old, pw.cats[n].k)
                   THEN SelectSeq(DictGet(old, pw.cats[n].k),
                                  LAMBDA e : ~DictHas(pw.cats[n].v, e.k))
                   ELSE <<>>
        merged == Obj(pw.kind, [n \in 1..Len(pw.cats) |->
                                   [k |-> pw.cats[n].k, v |-> pw.cats[n].v \o Kept(n)]])
    IN CASE outcome = "ok" -> Encrypt(k, iv, Dumps(merged))
         [] outcome = "open_fails" -> file
         [] OTHER -> Empty

\* save_passwords, lines 65-69: the file after the call.  The token is built
\* first; open(path, 'wb') truncates the live file; write() then fills it.
\*   open_fails   makedirs/open raises, the file is untouched
\*   write_fails  the write raises after the truncation
\*   crash_open   the process dies between open and write
save_passwords(pw, file, k, iv, outcome) ==
    CASE outcome = "ok" -> Encrypt(k, iv, Dumps(pw))
      [] outcome = "open_fails" -> file
      [] OTHER -> Empty

\* mutant: a blob that does not decrypt is treated like a missing blob
load_passwords_fallback(file, k) ==
    IF file.st = "absent" THEN [ret |-> "ok", val |-> Obj("nokey", <<>>)]
    ELSE LET d == Decrypt(k, file) IN
         IF ~d.ok THEN [ret |-> "ok", val |-> Obj("nokey", <<>>)]
         ELSE LET j == Loads(d.body) IN
              IF ~j.ok THEN [ret |-> "JSONDecodeError", val |-> NoObj]
              ELSE [ret |-> "ok", val |-> j.val]

\* load_passwords, lines 57-63: [ret, val]; ret is "ok" or the exception raised
load_passwords(file, k) ==
    IF file.st = "absent" THEN [ret |-> "ok", val |-> Obj("nokey", <<>>)]
    ELSE LET d == Decrypt(k, file) IN
         IF ~d.ok THEN [ret |-> "InvalidToken", val |-> NoObj]
         ELSE LET j == Loads(d.body) IN
              IF ~j.ok THEN [ret |-> "JSONDecodeError", val |-> NoObj]
              ELSE [ret |-> "ok", val |-> j.val]

----------------------------------------------------------------------------
(* The operations on self.passwords, as functions of the database.          *)
(* Out: the database after the call's assignments, the value returned (or   *)
(* the exception raised), whether the target existed, whether the call      *)
(* reaches save_passwords, and a note on the path taken.                    *)

Out(pw, ret, found, save, note) ==
    [pw |-> pw, ret |-> ret, found |-> found, save |-> save, note |-> note]

\* "if category:" (lines 124, 138, 178, 195): None and the empty string are false
Truthy(x) == x # None /\ x # ""

HasRecord(cats, category, service) ==
    DictHas(cats, category) /\ DictHas(DictGet(cats, category), service)

\* for cat, services in ....items(): if service in services  (0 when none)
FirstMatch(cats, service) ==
    LET hits == {i \in 1..Len(cats) : DictHas(cats[i].v, service)}
    IN IF hits = {} THEN 0 ELSE CHOOSE i \in hits : \A j \in hits : i <= j

\* self.passwords["categories"][category][service] = value
SetRecord(cats, category, service, value) ==
    DictSet(cats, category, DictSet(DictGet(cats, category), service, value))

\* lines 29-32: the database created when "categories" is missing
RECURSIVE FreshCategories(_)
FreshCategories(names) ==
    IF names = <<>> THEN <<>>
    ELSE <<[k |-> Head(names), v |-> <<>>]>> \o FreshCategories(Tail(names))

\* mutant: insert-if-absent, an existing record is kept
AddPassword_if_absent(pw, service, username, password, category, tags) ==
    LET cats1 == IF ~DictHas(pw.cats, category)
                 THEN DictSet(pw.cats, category, <<>>)
                 ELSE pw.cats
        taglist == IF tags.given THEN tags.list ELSE <<>>
        cats2 == IF HasRecord(pw.cats, category, service) THEN cats1
                 ELSE SetRecord(cats1, category, service, Rec(username, password, TRUE, taglist))
    IN Out(Obj("dict", cats2), "None", HasRecord(pw.cats, category, service), TRUE, "")

\* add_password, lines 108-121
AddPassword(pw, service, username, password, category, tags) ==
    LET cats1 == IF ~DictHas(pw.cats, category)
                 THEN DictSet(pw.cats, category, <<>>)
                 ELSE pw.cats
        taglist == IF tags.given THEN tags.list ELSE <<>>
        cats2 == SetRecord(cats1, category, service, Rec(username, password, TRUE, taglist))
    IN Out(Obj("dict", cats2), "None", HasRecord(pw.cats, category, service), TRUE, "")

\* mutant: omitted tags are written as the empty list
UpdatedRecord_replace(old, username, password, tags) ==
    Rec(username, password, TRUE, IF tags.given THEN tags.list ELSE <<>>)

\* the record update_password writes, lines 141-148 and 156-163
UpdatedRecord(old, username, password, tags) ==
    LET existing_tags == IF ~tags.given /\ old.hasTags THEN old.tags ELSE <<>>
    IN Rec(username, password, TRUE, IF tags.given THEN tags.list ELSE existing_tags)

\* update_password, lines 134-166
UpdatePassword(pw, service, username, password, category, tags) ==
    IF Truthy(category)
    THEN IF HasRecord(pw.cats, category, service)
         THEN LET old == DictGet(DictGet(pw.cats, category), service)
                  new == UpdatedRecord(old, username, password, tags)
              IN Out(Obj("dict", SetRecord(pw.cats, category, service, new)),
                     "True", TRUE, TRUE, "")
         ELSE Out(pw, "False", FALSE, FALSE, "")
    ELSE LET i == FirstMatch(pw.cats, service) IN
         IF i = 0 THEN Out(pw, "False", FALSE, FALSE, "")
         ELSE LET old == DictGet(pw.cats[i].v, service)
                  new == UpdatedRecord(old, username, password, tags)
              IN Out(Obj("dict", [pw.cats EXCEPT ![i].v = DictSet(@, service, new)]),
                     "True", TRUE, TRUE, "")

\* delete_password, lines 168-191
DeletePassword(pw, service, category) ==
    IF Truthy(category)
    THEN IF HasRecord(pw.cats, category, service)
         THEN Out(Obj("dict", DictSet(pw.cats, category,
                                      DictDel(DictGet(pw.cats, category), service))),
                  "True", TRUE, TRUE, "")
         ELSE Out(pw, "False", FALSE, FALSE, "")
    ELSE LET i == FirstMatch(pw.cats, service) IN
         IF i = 0 THEN Out(pw, "False", FALSE, FALSE, "")
         ELSE Out(Obj("dict", [pw.cats EXCEPT ![i].v = DictDel(@, service)]),
                  "True", TRUE, TRUE, "")

\* get_password, lines 123-132: [ret, val]; ret = "None" when nothing is found
GetPassword(pw, service, category) ==
    IF Truthy(category)
    THEN IF HasRecord(pw.cats, category, service)
         THEN [ret |-> "record", val |-> DictGet(DictGet(pw.cats, category), service)]
         ELSE [ret |-> "None", val |-> <<>>]
    ELSE LET i == FirstMatch(pw.cats, service) IN
         IF i = 0 THEN [ret |-> "None", val |-> <<>>]
         ELSE [ret |-> "record", val |-> DictGet(pw.cats[i].v, service)]

\* the characters of the strings that search compares
Chars(str) ==
    CASE str = "Mail"     -> <<"M", "a", "i", "l">>
      [] str = "github"   -> <<"g", "i", "t", "h", "u", "b">>
      [] str = "GIT"      -> <<"G", "I", "T">>
      [] str = "i"        -> <<"i">>
      [] str = "mail"     -> <<"m", "a", "i", "l">>
      [] str = "Git-User" -> <<"G", "i", "t", "-", "U", "s", "e", "r">>
      [] str = "work"     -> <<"w", "o", "r", "k">>
      [] str = "WORK"     -> <<"W", "O", "R", "K">>
      [] str = "wor"      -> <<"w", "o", "r">>
      [] OTHER            -> <<>>

LowerChar(c) ==
    CASE c = "G" -> "g" [] c = "I" -> "i" [] c = "T" -> "t" [] c = "M" -> "m"
      [] c = "U" -> "u" [] c = "W" -> "w" [] c = "O" -> "o" [] c = "R" -> "r"
      [] c = "K" -> "k" [] c = "A" -> "a" [] c = "Q" -> "q" [] OTHER -> c

\* str.lower()
Lower(str) == [i \in 1..Len(Chars(str)) |-> LowerChar(Chars(str)[i])]

\* a in b, for strings
Contains(a, b) ==
    /\ Len(a) <= Len(b)
    /\ \E k \in 0..(Len(b) - Len(a)) : SubSeq(b, k + 1, k + Len(a)) = a

\* mutant: the keyword is compared without lowering the case
KeywordMatch_cased(keyword, service) == Contains(Chars(keyword), Chars(service))

\* lines 199-207 / 215-223: keyword_match and tag_match
KeywordMatch(keyword, service) == Contains(Lower(keyword), Lower(service))

TagMatch(tag, creds) ==
    IF Truthy(tag)
    THEN /\ creds.hasTags /\ creds.tags # <<>>
         /\ \E n \in 1..Len(creds.tags) : Lower(tag) = Lower(creds.tags[n])
    ELSE TRUE

\* mutant: a name already in the result keeps its first record
PutResult_keep_first(results, service, creds) ==
    IF DictHas(results, service) THEN results ELSE DictSet(results, service, creds)

\* lines 210 and 226: results[service] = creds
PutResult(results, service, creds) == DictSet(results, service, creds)

\* the loop over the services of one category, lines 198-210 / 214-226
RECURSIVE SearchServices(_, _, _, _)
SearchServices(results, services, keyword, tag) ==
    IF services = <<>> THEN results
    ELSE LET e == Head(services)
             hit == KeywordMatch(keyword, e.k) /\ TagMatch(tag, e.v)
         IN SearchServices(IF hit THEN PutResult(results, e.k, e.v) ELSE results,
                           Tail(services), keyword, tag)

\* the loop over all categories, lines 213-226
RECURSIVE SearchCategories(_, _, _, _)
SearchCategories(results, cats, keyword, tag) ==
    IF cats = <<>> THEN results
    ELSE SearchCategories(SearchServices(results, Head(cats).v, keyword, tag),
                          Tail(cats), keyword, tag)

\* search_password, lines 193-227: the mapping returned
SearchPassword(pw, keyword, category, tag) ==
    [ret |-> "results",
     val |-> IF Truthy(category)
             THEN IF DictHas(pw.cats, category)
                  THEN SearchServices(<<>>, DictGet(pw.cats, category), keyword, tag)
                  ELSE <<>>
             ELSE SearchCategories(<<>>, pw.cats, keyword, tag)]

\* mutant: the migration runs at every start
NeedsMigration_always(pw) == TRUE

\* check_and_migrate_categories, lines 74-81: needs_migration
NeedsMigration(pw) ==
    \E i \in 1..Len(OldCategories) : DictHas(pw.cats, OldCategories[i])

\* lines 92-94: make sure all new categories exist
RECURSIVE EnsureCategories(_, _)
EnsureCategories(cats, names) ==
    IF names = <<>> THEN cats
    ELSE EnsureCategories(IF DictHas(cats, Head(names)) THEN cats
                          ELSE DictSet(cats, Head(names), <<>>),
                          Tail(names))

\* mutant: the services of the old category are not copied
CopyServices_none(dst, src) == dst

\* mutant: a service that the new category already holds keeps its record
RECURSIVE CopyServices_keep(_, _)
CopyServices_keep(dst, src) ==
    IF src = <<>> THEN dst
    ELSE CopyServices_keep(IF DictHas(dst, Head(src).k) THEN dst
                           ELSE DictSet(dst, Head(src).k, Head(src).v),
                           Tail(src))

\* lines 101-102: for service, data in old.items(): new[service] = data
RECURSIVE CopyServices(_, _)
CopyServices(dst, src) ==
    IF src = <<>> THEN dst
    ELSE CopyServices(DictSet(dst, Head(src).k, Head(src).v), Tail(src))

\* lines 97-104, from index i on
RECURSIVE MigrateFrom(_, _)
MigrateFrom(cats, i) ==
    IF i > Len(OldCategories) THEN cats
    ELSE LET old_cat == OldCategories[i] IN
         IF DictHas(cats, old_cat) /\ i <= Len(DefaultCategories)
         THEN LET new_cat == DefaultCategories[i]
                  copied == DictSet(cats, new_cat,
                                    CopyServices(DictGet(cats, new_cat), DictGet(cats, old_cat)))
              IN MigrateFrom(DictDel(copied, old_cat), i + 1)
         ELSE MigrateFrom(cats, i + 1)

\* migrate_categories, lines 86-106 (the database it saves)
migrate_categories(pw) ==
    Obj("dict", MigrateFrom(EnsureCategories(pw.cats, DefaultCategories), 1))

\* check_and_migrate_categories, lines 71-84
check_and_migrate_categories(pw) ==
    IF NeedsMigration(pw)
    THEN Out(migrate_categories(pw), "ok", TRUE, TRUE, "migrated")
    ELSE Out(pw, "ok", FALSE, FALSE, "loaded")

\* __init__, lines 26-36, on what load_passwords returned
InitDatabase(loaded) ==
    CASE loaded.kind = "toplist" -> Out(NoObj, "TypeError", FALSE, FALSE, "")
      [] loaded.kind = "nokey" ->
           Out(Obj("dict", FreshCategories(DefaultCategories)), "ok", FALSE, TRUE, "created")
      [] OTHER -> check_and_migrate_categories(loaded)

----------------------------------------------------------------------------
(* CSV import *)

\* a row as csv.DictReader yields it; category = None when the header has no
\* category column; bad: reading the row raises (csv.Error, decoding error)
Row(service, username, password, category, bad) ==
    [service |-> service, username |-> username, password |-> password,
     category |-> category, bad |-> bad]

CsvFile(opens, rows) == [opens |-> opens, rows |-> rows]

CsvFiles ==
    { CsvFile(FALSE, <<>>),
      CsvFile(TRUE, <<Row("Mail", "alice", "s3cr3t", None, FALSE)>>),
      CsvFile(TRUE, <<Row("github", "Git-User", "hunter2", "", FALSE),
                      Row("Mail", "alice", "s3cr3t", "Internet", FALSE),
                      Row("", "", "", None, TRUE),
                      Row("github", "alice", "s3cr3t", "Internet", FALSE)>>) }

\* mutant: a row without category goes to the default category of add_password
RowCategory_default(row) == IF row.category = None THEN "Internet" ELSE row.category

\* line 240: row.get('category', '1')
RowCategory(row) == IF row.category = None THEN "1" ELSE row.category

\* import_passwords, lines 232-245, rows i.. of the file.  failAt is the row
\* whose save does not succeed (0: every save succeeds).
\* [pw, saved, nsaved, ret, stop]: the database in memory, the last database
\* saved, the number of saves that succeeded, the value returned, and the
\* row at which a save did not succeed (0 when none).
RECURSIVE ImportRows(_, _, _, _, _, _)
ImportRows(pw, saved, nsaved, rows, i, failAt) ==
    IF i > Len(rows)
    THEN [pw |-> pw, saved |-> saved, nsaved |-> nsaved, ret |-> "True", stop |-> 0]
    ELSE IF rows[i].bad
    THEN [pw |-> pw, saved |-> saved, nsaved |-> nsaved, ret |-> "False", stop |-> 0]
    ELSE LET r == AddPassword(pw, rows[i].service, rows[i].username, rows[i].password,
                              RowCategory(rows[i]), NoTags)
         IN IF i = failAt
            THEN [pw |-> r.pw, saved |-> saved, nsaved |-> nsaved, ret |-> "False", stop |-> i]
            ELSE ImportRows(r.pw, r.pw, nsaved + 1, rows, i + 1, failAt)

ImportPasswords(pw, csv, failAt) ==
    IF ~csv.opens
    THEN [pw |-> pw, saved |-> pw, nsaved |-> 0, ret |-> "False", stop |-> 0]
    ELSE ImportRows(pw, pw, 0, csv.rows, 1, failAt)

\* a row of the exported file, lines 255-260
ExportRow(category, service, creds) ==
    [category |-> category, service |-> service,
     username |-> creds.username, password |-> creds.password]

\* mutant: only the first service of a category is written
ExportServices_first(category, services) ==
    IF services = <<>> THEN [ok |-> TRUE, rows |-> <<>>]
    ELSE [ok |-> TRUE, rows |-> <<ExportRow(category, Head(services).k, Head(services).v)>>]

\* lines 254-260, one category: [ok, rows]; creds['username'] or
\* creds['password'] raises KeyError on a record without that key, and the
\* rows written before it stay in the file
RECURSIVE ExportServices(_, _)
ExportServices(category, services) ==
    IF services = <<>> THEN [ok |-> TRUE, rows |-> <<>>]
    ELSE LET e == Head(services) IN
         IF e.v.username = None \/ e.v.password = None
         THEN [ok |-> FALSE, rows |-> <<>>]
         ELSE LET rest == ExportServices(category, Tail(services))
              IN [ok |-> rest.ok, rows |-> <<ExportRow(category, e.k, e.v)>> \o rest.rows]

\* lines 253-260, all categories
RECURSIVE ExportCategories(_)
ExportCategories(cats) ==
    IF cats = <<>> THEN [ok |-> TRUE, rows |-> <<>>]
    ELSE LET first == ExportServices(Head(cats).k, Head(cats).v) IN
         IF ~first.ok THEN first
         ELSE LET rest == ExportCategories(Tail(cats))
              IN [ok |-> rest.ok, rows |-> first.rows \o rest.rows]

\* export_passwords, lines 247-264: the value returned and the rows written
\* after the header; opens = FALSE: open(csv_file, 'w') raises
ExportPasswords(pw, opens) ==
    IF ~opens THEN [ret |-> "False", val |-> <<>>]
    ELSE LET E == ExportCategories(pw.cats)
         IN [ret |-> IF E.ok THEN "True" ELSE "False", val |-> E.rows]

----------------------------------------------------------------------------
(* The files found at the first start *)

LegacyRec(c) == Rec(c[1], c[2], FALSE, <<>>)

\* a database written by the version that used numeric categories
LegacyDb ==
    Obj("dict", << [k |-> "1", v |-> <<[k |-> "Mail", v |-> LegacyRec(<<"alice", "s3cr3t">>)]>>],
                   [k |-> "2", v |-> <<>>],
                   [k |-> "3", v |-> <<[k |-> "github", v |-> LegacyRec(<<"Git-User", "hunter2">>)]>>],
                   [k |-> "4", v |-> <<>>] >>)

\* a well-formed database without legacy keys that lacks most default categories
PartialDb ==
    Obj("dict", << [k |-> "Internet", v |-> <<[k |-> "Mail", v |-> Rec("alice", "s3cr3t", TRUE, <<"work">>)]>>],
                   [k |-> "Work", v |-> <<>>] >>)

\* JSON that decrypts and parses, with all default categories, but holds a
\* record without the 'password' key
MalformedDb ==
    Obj("dict", DictSet(FreshCategories(DefaultCategories), "Internet",
                        <<[k |-> "github", v |-> Rec("Git-User", None, FALSE, <<>>)]>>))

InitialPlaintexts ==
    { Dumps(LegacyDb), Dumps(PartialDb), Dumps(MalformedDb), Dumps(Obj("toplist", <<>>)),
      <<<<"garbage">>>> }

\* the arguments of a call
Call(service, username, password, category, tags) ==
    [service |-> service, username |-> username, password |-> password,
     category |-> category, tags |-> tags]
NoCall == Call("", "", "", None, NoTags)

\* val: the value a reading call returns (a record, a mapping, the rows written)
Result(op, call, ret, found, note) ==
    [op |-> op, call |-> call, ret |-> ret, found |-> found, note |-> note, val |-> <<>>]
Returned(op, call, ret, val) ==
    [op |-> op, call |-> call, ret |-> ret, found |-> FALSE, note |-> "", val |-> val]
NoResult == Result("none", NoCall, "None", FALSE, "")

\* the state of a process: whether it holds a store, self.key, self.passwords
Process(r, k, pw) == [run |-> r, key |-> k, passwords |-> pw]
NoProcess == Process("down", "none", NoObj)

Init ==
    /\ \/ keyFile = "none" /\ blob = Absent
       \/ keyFile = "none" /\ blob = Encrypt(OldKey, 0, Dumps(LegacyDb))
       \/ keyFile = OldKey /\ blob \in {Encrypt(OldKey, 0, b) : b \in InitialPlaintexts}
    /\ run = "down"
    /\ key = "none"
    /\ passwords = NoObj
    /\ nonce = 0
    /\ result = NoResult
    /\ steps = 0
    /\ faulted = FALSE
    /\ peer = NoProcess

----------------------------------------------------------------------------
(* Actions *)

\* mutant: a new key is generated and written at every start
load_key_regenerate(file) == FreshKeys

\* load_key, lines 38-55: the key returned (and left in the key file)
load_key(file) == IF file = "none" THEN FreshKeys ELSE {file}

Advance(r, o) == IF r.save /\ o = "ok" THEN nonce + 1 ELSE nonce

\* a save that does not succeed is a fault of the disk or of the process;
\* a behaviour has at most one fault
Fault(o) ==
    /\ o # "ok" => ~faulted
    /\ faulted' = (faulted \/ o # "ok")

\* __init__, lines 26-36, on the blob file: load_passwords, then the database
Construct(file, k) ==
    LET L == load_passwords(file, k)
    IN IF L.ret = "ok" THEN InitDatabase(L.val) ELSE Out(NoObj, L.ret, FALSE, FALSE, "")

\* PasswordManager(...): __init__, lines 19-36
Start ==
    /\ run = "down"
    /\ \E k \in load_key(keyFile) :
       \E r \in {Construct(blob, k)}, o \in SaveOutcomes :
         LET built == r.ret = "ok" /\ (r.save => o = "ok")
         IN /\ r.save \/ o = "ok"
            /\ Fault(o)
            /\ keyFile' = k
            /\ blob' = IF r.save THEN save_passwords(r.pw, blob, k, nonce + 1, o) ELSE blob
            /\ nonce' = Advance(r, o)
            /\ run' = IF built THEN "up" ELSE "down"
            /\ key' = IF built THEN k ELSE "none"
            /\ passwords' = IF built THEN r.pw ELSE NoObj
            /\ result' = Result("init", NoCall,
                                 IF r.ret # "ok" THEN r.ret
                                 ELSE IF ~r.save \/ o = "ok" THEN "ok"
                                 ELSE IF o \in Crashes THEN "crash" ELSE "OSError",
                                 r.found, r.note)
    /\ steps' = steps
    /\ peer' = peer

\* the end of a mutating call: save_passwords when the call reaches it
Apply(op, call, out) ==
    \E r \in {out}, o \in SaveOutcomes :
        /\ r.save \/ o = "ok"
        /\ Fault(o)
        /\ steps' = steps + 1
        /\ nonce' = Advance(r, o)
        /\ IF r.save /\ o \in Crashes
           THEN /\ run' = "down" /\ key' = "none" /\ passwords' = NoObj
                /\ result' = Result(op, call, "crash", r.found, r.note)
           ELSE /\ run' = run /\ key' = key /\ passwords' = r.pw
                /\ result' = Result(op, call,
                                     IF r.save /\ o # "ok" THEN "OSError" ELSE r.ret,
                                     r.found, r.note)
        /\ blob' = IF r.save THEN save_passwords(r.pw, blob, key, nonce + 1, o) ELSE blob
        /\ keyFile' = keyFile
        /\ peer' = peer

add_password(service, username, password, category, tags) ==
    /\ run = "up"
    /\ Apply("add", Call(service, username, password, category, tags),
             AddPassword(passwords, service, username, password, category, tags))

update_password(service, username, password, category, tags) ==
    /\ run = "up"
    /\ Apply("update", Call(service, username, password, category, tags),
             UpdatePassword(passwords, service, username, password, category, tags))

delete_password(service, category) ==
    /\ run = "up"
    /\ Apply("delete", Call(service, "", "", category, NoTags),
             DeletePassword(passwords, service, category))

\* mutant: a reading call saves the database like a mutating one
Query_saving(op, call, out) ==
    /\ run = "up"
    /\ steps' = steps + 1
    /\ result' = Returned(op, call, out.ret, out.val)
    /\ blob' = save_passwords(passwords, blob, key, nonce + 1, "ok")
    /\ nonce' = nonce + 1
    /\ UNCHANGED <<keyFile, run, key, passwords, faulted, peer>>

\* a call that reads self.passwords and changes nothing
Query(op, call, out) ==
    /\ run = "up"
    /\ steps' = steps + 1
    /\ result' = Returned(op, call, out.ret, out.val)
    /\ UNCHANGED <<keyFile, blob, run, key, passwords, nonce, faulted, peer>>

get_password(service, category) ==
    Query("get", Call(service, "", "", category, NoTags),
          GetPassword(passwords, service, category))

search_password(keyword, category, tag) ==
    Query("search", [keyword |-> keyword, category |-> category, tag |-> tag],
          SearchPassword(passwords, keyword, category, tag))

export_passwords(opens) ==
    Query("export", [csv_file |-> [opens |-> opens]], ExportPasswords(passwords, opens))

\* get_categories, lines 229-230
get_categories ==
    Query("categories", NoCall,
          [ret |-> "list", val |-> [n \in 1..Len(passwords.cats) |-> passwords.cats[n].k]])

import_passwords(csv) ==
    /\ run = "up"
    /\ \E failAt \in 0..Len(csv.rows) :
       \E I \in {ImportPasswords(passwords, csv, failAt)}, o \in SaveOutcomes \ {"ok"} :
         LET before == IF I.nsaved > 0
                       THEN Encrypt(key, nonce + I.nsaved, Dumps(I.saved))
                       ELSE blob
         IN /\ I.stop = failAt
            /\ Fault(IF failAt = 0 THEN "ok" ELSE o)
            /\ failAt = 0 => o = "open_fails"
            /\ blob' = IF I.stop > 0
                       THEN save_passwords(I.pw, before, key, nonce + I.nsaved + 1, o)
                       ELSE before
            /\ nonce' = nonce + I.nsaved
            /\ IF I.stop > 0 /\ o \in Crashes
               THEN /\ run' = "down" /\ key' = "none" /\ passwords' = NoObj
                    /\ result' = Result("import", [csv_file |-> csv], "crash", FALSE, "")
               ELSE /\ run' = run /\ key' = key /\ passwords' = I.pw
                    /\ result' = Result("import", [csv_file |-> csv], I.ret, FALSE, "")
    /\ keyFile' = keyFile
    /\ steps' = steps + 1
    /\ peer' = peer

\* the process exits; val keeps what self.passwords held at that moment
Close ==
    /\ run = "up"
    /\ run' = "down" /\ key' = "none" /\ passwords' = NoObj
    /\ result' = Returned("close", NoCall, "None", passwords)
    /\ UNCHANGED <<keyFile, blob, nonce, steps, faulted, peer>>

\* what altering one part of a stored token can give
Tampered(file) ==
    { [file EXCEPT !.iv = file.iv + 1],
      [file EXCEPT !.body = Dumps(Obj("nokey", <<>>))],
      [file EXCEPT !.mac = Mac("k0", file.iv, file.body)] } \ {file}

\* somebody alters the blob file while no process holds the store
Tamper ==
    /\ run = "down" /\ ~faulted
    /\ blob.st = "token" /\ blob.mac = Mac(blob.mac.key, blob.iv, blob.body)
    /\ blob' \in Tampered(blob)
    /\ faulted' = TRUE
    /\ UNCHANGED <<keyFile, run, key, passwords, nonce, result, steps, peer>>

\* at most MaxOps public calls are made in a behaviour
Next ==
    \/ Start
    \/ steps < MaxOps /\ \E s \in Services, c \in Creds, cat \in AddCategories, t \in AddTagArgs :
          add_password(s, c[1], c[2], cat, t)
    \/ steps < MaxOps /\ \E s \in Services, c \in UpdateCreds, cat \in LookupCategories, t \in TagArgs :
          update_password(s, c[1], c[2], cat, t)
    \/ steps < MaxOps /\ \E s \in Services, cat \in LookupCategories : delete_password(s, cat)
    \/ steps < MaxOps /\ \E s \in Services, cat \in LookupCategories : get_password(s, cat)
    \/ steps < MaxOps /\ \E c \in SearchCalls : search_password(c[1], c[2], c[3])
    \/ steps < MaxOps /\ get_categories
    \/ steps < MaxOps /\ \E opens \in BOOLEAN : export_passwords(opens)
    \/ steps < MaxOps /\ \E csv \in CsvFiles : import_passwords(csv)
    \/ Close
    \/ Tamper

Spec == Init /\ [][Next]_vars

----------------------------------------------------------------------------
(* Properties *)

\* what the blob file gives when it is loaded with the key in the key file
Stored == load_passwords(blob, keyFile)
Loaded(pw) == [ret |-> "ok", val |-> pw]

Authentic(file, k) == file.st = "token" /\ file.mac = Mac(k, file.iv, file.body)

Records(cats) ==
    {<<cats[i].k, cats[i].v[j].k, cats[i].v[j].v>> : <<i, j>> \in
        {x \in (1..Len(cats)) \X (1..2) : x[2] <= Len(cats[x[1]].v)}}

WellFormed(pw) ==
    /\ pw.kind = "dict"
    /\ \A i \in 1..Len(pw.cats) : \A j \in 1..Len(pw.cats[i].v) :
          pw.cats[i].v[j].v.username # None /\ pw.cats[i].v[j].v.password # None

\* the lookup rule: does the call's target exist, and in which category
TargetExists(cats, service, category) ==
    IF category # None THEN HasRecord(cats, category, service)
    ELSE \E i \in 1..Len(cats) : DictHas(cats[i].v, service)

TargetIndex(cats, service, category) ==
    IF category # None THEN CHOOSE i \in 1..Len(cats) : cats[i].k = category
    ELSE CHOOSE i \in 1..Len(cats) :
            /\ DictHas(cats[i].v, service)
            /\ \A j \in 1..(i - 1) : ~DictHas(cats[j].v, service)

\* C1: when the engine is idle after store initialization or after a completed
\* add, a successful update or delete, an import or a migration, the blob
\* decrypts to exactly the in-memory database.
C1_BlobIsMemory ==
    (/\ run = "up"
     /\ \/ ~faulted
        \/ /\ result.op \in {"init", "add", "update", "delete"}
           /\ result.ret \in {"ok", "None", "True"})
    => Stored = Loaded(passwords)

C1_Witness ==
    /\ run = "up" /\ result.op = "import" /\ result.ret = "True"
    /\ DictHas(passwords.cats, "1")
    /\ Stored = Loaded(passwords)

\* C2: a crash at any step of a save never leaves a blob file that held a
\* valid database empty, truncated or undecryptable.
C2_SaveAtomic ==
    [][(/\ run = "up"
        /\ load_passwords(blob, key).ret = "ok"
        /\ result'.ret = "crash")
       => load_passwords(blob', key).ret = "ok"]_vars

\* C3: store initialization succeeds only if the blob is absent or decrypts
\* and parses to a well-formed Database; it never yields a store that holds a
\* malformed database.
C3_InitRejectsMalformed ==
    (run = "up" /\ result.op = "init") => WellFormed(passwords)

\* C4: saving a database with a key and loading the blob with the same key
\* returns an equal database: same categories in the same order, same
\* services, same username, password and tags.  Every database the store
\* holds is first held after the initialization or after a call that assigns
\* to it (the reading calls leave it as it is), and is compared there.
C4_RoundTrip ==
    (run = "up" /\ result.op \in {"init", "add", "update", "delete", "import"}) =>
        load_passwords(save_passwords(passwords, blob, key, nonce + 1, "ok"), key)
            = Loaded(passwords)

C4_Witness ==
    /\ run = "up" /\ result.op = "add"
    /\ Len(passwords.cats) > Len(DefaultCategories)
    /\ \E r \in Records(passwords.cats) : r[3].tags = <<"work">>
    /\ \E r \in Records(passwords.cats) : ~r[3].hasTags

\* C5: loading a blob that was altered in any part, or loading it with
\* another key, fails with a decryption error: the store is not constructed,
\* no database is returned and the file is left as it is.
C5_TamperDetected ==
    [][(Start /\ blob.st = "token" /\ ~Authentic(blob, keyFile'))
       => /\ result'.ret = "InvalidToken"
          /\ run' = "down" /\ passwords' = NoObj
          /\ blob' = blob]_vars

C5_Witness ==
    /\ result.op = "init" /\ result.ret = "InvalidToken"
    /\ blob.st = "token" /\ blob.mac.key = keyFile /\ ~Authentic(blob, keyFile)

\* C6: every database that store initialization loads or creates contains
\* all seven default categories.
C6_DefaultsPresent ==
    (run = "up" /\ result.op = "init")
    => \A i \in 1..Len(DefaultCategories) : DictHas(passwords.cats, DefaultCategories[i])

\* C7: add creates the category when it is missing and leaves exactly one
\* record at (category, service), holding the username, password and tags of
\* this call, also when a record was there before; it never fails with a
\* uniqueness error.
C7_Upsert ==
    (run = "up" /\ result.op = "add")
    => LET a == result.call
           cats == passwords.cats
       IN /\ result.ret \in {"None", "OSError"}
          /\ Cardinality({i \in 1..Len(cats) : cats[i].k = a.category}) = 1
          /\ LET services == DictGet(cats, a.category)
             IN /\ Cardinality({j \in 1..Len(services) : services[j].k = a.service}) = 1
                /\ DictGet(services, a.service)
                     = Rec(a.username, a.password, TRUE,
                           IF a.tags.given THEN a.tags.list ELSE <<>>)

\* the second add of a service in a category, with other values
C7_Witness ==
    /\ run = "up" /\ result.op = "add" /\ result.ret = "None" /\ result.found
    /\ steps = 2 /\ result.note = "" /\ Len(passwords.cats) = Len(DefaultCategories) + 1
    /\ result.call.category = "Work" /\ result.call.username = "Git-User"

\* C8: update on an existing record replaces username and password; with the
\* tags argument omitted the record keeps its tag list, with a tag list given
\* (the empty list too) the record's tags are that list.  Nothing else in the
\* database changes.
C8_UpdateTags ==
    [][(run = "up" /\ result'.op = "update" /\ result'.ret = "True")
       => LET a == result'.call
              cats == passwords.cats
          IN \E i \in 1..Len(cats) :
               /\ DictHas(cats[i].v, a.service)
               /\ LET old == DictGet(cats[i].v, a.service)
                      new == Rec(a.username, a.password, TRUE,
                                 IF a.tags.given THEN a.tags.list ELSE old.tags)
                  IN passwords'.cats = [cats EXCEPT ![i].v = DictSet(@, a.service, new)]]_vars

C8_Witness ==
    /\ run = "up" /\ steps = 1
    /\ result.op = "update" /\ result.ret = "True" /\ ~result.call.tags.given
    /\ HasRecord(passwords.cats, "Internet", "Mail")
    /\ DictGet(DictGet(passwords.cats, "Internet"), "Mail")
         = Rec("Git-User", "hunter2", TRUE, <<"work">>)

\* C9: update of a target that does not exist returns false, changes neither
\* the in-memory database nor the blob (nothing is saved), and creates no
\* record and no category.
C9_UpdateMissing ==
    [][(/\ run = "up" /\ result'.op = "update"
        /\ ~TargetExists(passwords.cats, result'.call.service, result'.call.category))
       => /\ result'.ret = "False"
          /\ passwords' = passwords
          /\ blob' = blob /\ nonce' = nonce]_vars

\* C10: delete removes exactly the first match under the lookup rule and
\* returns true, leaving every other record and every category (one that
\* becomes empty too) as it was; with no match it returns false and changes
\* neither memory nor the blob.
C10_DeleteOne ==
    [][(run = "up" /\ result'.op = "delete" /\ faulted' = faulted)
       => LET a == result'.call IN
          IF TargetExists(passwords.cats, a.service, a.category)
          THEN LET i == TargetIndex(passwords.cats, a.service, a.category)
                   Other(e) == e.k # a.service
               IN /\ result'.ret = "True"
                  /\ Len(passwords'.cats) = Len(passwords.cats)
                  /\ \A n \in 1..Len(passwords.cats) :
                       /\ passwords'.cats[n].k = passwords.cats[n].k
                       /\ n # i => passwords'.cats[n].v = passwords.cats[n].v
                  /\ passwords'.cats[i].v = SelectSeq(passwords.cats[i].v, Other)
                  /\ Len(passwords'.cats[i].v) = Len(passwords.cats[i].v) - 1
                  /\ load_passwords(blob', key) = Loaded(passwords')
          ELSE /\ result'.ret = "False"
               /\ passwords' = passwords
               /\ blob' = blob /\ nonce' = nonce]_vars


\* C11: with a category given, get, update and delete act on exactly that
\* (category, service) pair and never on a same-named service of another
\* category; with the category omitted they act on the service in the first
\* category, in insertion order, that contains it.
C11_LookupRule ==
    [][(run = "up" /\ result'.op \in {"get", "update", "delete"}
        /\ result'.ret \in {"record", "None", "True", "False"})
       => LET a == result'.call
              cats == passwords.cats
              exists == TargetExists(cats, a.service, a.category)
              i == TargetIndex(cats, a.service, a.category)
          IN CASE result'.op = "get" ->
                    IF exists
                    THEN result'.ret = "record" /\ result'.val = DictGet(cats[i].v, a.service)
                    ELSE result'.ret = "None"
               [] result'.op = "update" ->
                    IF exists
                    THEN /\ result'.ret = "True"
                         /\ \A n \in 1..Len(cats) : n # i => passwords'.cats[n] = cats[n]
                    ELSE result'.ret = "False" /\ passwords' = passwords
               [] OTHER ->
                    IF exists
                    THEN /\ result'.ret = "True"
                         /\ \A n \in 1..Len(cats) : n # i => passwords'.cats[n] = cats[n]
                         /\ ~DictHas(passwords'.cats[i].v, a.service)
                    ELSE result'.ret = "False" /\ passwords' = passwords]_vars

\* does the record of service in category satisfy the search: the keyword is
\* in the service name without regard to case, the category is the one given,
\* the tag is an element of the tag list without regard to case
Matches(category, service, creds, a) ==
    /\ Contains(Lower(a.keyword), Lower(service))
    /\ a.category # None => category = a.category
    /\ a.tag # None => \E n \in 1..Len(creds.tags) : Lower(creds.tags[n]) = Lower(a.tag)

\* C12: search returns exactly the records whose service name contains the
\* keyword as a case-insensitive substring, restricted to the category when
\* one is given and, when a tag is given, to the records whose tag list holds
\* that tag case-insensitively as a whole element; a record with no tags
\* never matches a tag filter.
C12_SearchExact ==
    (run = "up" /\ result.op = "search")
    => LET a == result.call
           hits == {r \in Records(passwords.cats) : Matches(r[1], r[2], r[3], a)}
       IN /\ DictKeys(result.val) = {r[2] : r \in hits}
          /\ \A n \in 1..Len(result.val) :
                \E r \in hits : r[2] = result.val[n].k /\ r[3] = result.val[n].v

\* C13: when search runs over all categories and a service name matches in
\* two categories, the result holds one entry for the name: the record of
\* the later category in iteration order.
C13_LaterWins ==
    (run = "up" /\ result.op = "search" /\ result.call.category = None)
    => LET a == result.call
           cats == passwords.cats
           Hit(i, service) ==
               /\ DictHas(cats[i].v, service)
               /\ Matches(cats[i].k, service, DictGet(cats[i].v, service), a)
       IN \A service \in Services :
             LET at == {i \in 1..Len(cats) : Hit(i, service)}
                 last == CHOOSE i \in at : \A j \in at : j <= i
             IN Cardinality(at) >= 2
                => /\ Cardinality({n \in 1..Len(result.val) : result.val[n].k = service}) = 1
                   /\ DictGet(result.val, service) = DictGet(cats[last].v, service)

\* Mail is stored in two categories with different records and both match
C13_Witness ==
    /\ run = "up" /\ result.op = "search" /\ result.call = [keyword |-> "i", category |-> None, tag |-> None]
    /\ HasRecord(passwords.cats, "Internet", "Mail") /\ HasRecord(passwords.cats, "Work", "Mail")
    /\ DictGet(DictGet(passwords.cats, "Internet"), "Mail") # DictGet(DictGet(passwords.cats, "Work"), "Mail")
    /\ DictGet(result.val, "Mail") = DictGet(DictGet(passwords.cats, "Work"), "Mail")

\* what a start finds in the blob file
Found == load_passwords(blob, keyFile').val

\* C14: migration maps the legacy categories by position: every service of a
\* legacy category "1".."4" present at load is afterwards in Internet,
\* Gaming, Coding, Shopping respectively with the same record, and after
\* store initialization no legacy identifier is a category key in memory or
\* in the blob.
C14_MigrationByPosition ==
    [][(run = "down" /\ run' = "up")
       => \A found \in {Found}, after \in {load_passwords(blob', key')} :
            /\ after.ret = "ok"
            /\ \A i \in 1..Len(OldCategories) :
                 /\ ~DictHas(passwords'.cats, OldCategories[i])
                 /\ ~DictHas(after.val.cats, OldCategories[i])
                 /\ DictHas(found.cats, OldCategories[i])
                    => \A old \in {DictGet(found.cats, OldCategories[i])},
                          new \in {DictGet(passwords'.cats, DefaultCategories[i])} :
                         \A n \in 1..Len(old) :
                            DictHas(new, old[n].k) /\ DictGet(new, old[n].k) = old[n].v]_vars

\* the legacy store has been migrated
C14_Witness ==
    /\ run = "up" /\ result.op = "init" /\ result.note = "migrated" /\ steps = 0
    /\ HasRecord(passwords.cats, "Internet", "Mail")
    /\ HasRecord(passwords.cats, "Coding", "github")
    /\ DictGet(DictGet(passwords.cats, "Coding"), "github") = LegacyRec(<<"Git-User", "hunter2">>)

\* C15: migration is idempotent: migrating a database twice gives the same
\* database as migrating it once; the migration check on a database without
\* legacy keys changes nothing in memory and saves nothing.
C15_MigrationIdempotent ==
    [][(run = "down" /\ run' = "up")
       => \A found \in {Found} :
            found.kind = "dict"
            => /\ \A once \in {migrate_categories(found)} :
                    /\ migrate_categories(once) = once
                    /\ migrate_categories(passwords') = once
               /\ (\A i \in 1..Len(OldCategories) : ~DictHas(found.cats, OldCategories[i]))
                  => passwords' = found /\ blob' = blob /\ nonce' = nonce]_vars

\* a store whose category "1" came from an import has been migrated at the
\* next start, and migrating it again changes nothing
C15_Witness ==
    /\ run = "up" /\ result.op = "init" /\ result.note = "migrated" /\ steps = 1
    /\ migrate_categories(passwords) = passwords

\* C16: a store created with the default categories, after any sequence of
\* completed add, update, delete and import operations, is the same after
\* closing and reopening with the same key: same categories in the same
\* order, same records.
C16_RestartPreserves ==
    [][(/\ run = "down" /\ result.op = "close" /\ run' = "up"
        /\ keyFile \in FreshKeys /\ ~faulted')
       => /\ passwords' = result.val
          /\ [n \in 1..Len(passwords'.cats) |-> passwords'.cats[n].k]
               = [n \in 1..Len(result.val.cats) |-> result.val.cats[n].k]]_vars

\* C17: the key is generated and written only when no key file exists; a
\* later start returns the key in the file unchanged; the content of the key
\* file never changes and the file is never deleted, whatever starts and
\* store operations happen.
C17_KeyLifecycle ==
    [][/\ keyFile # "none" => keyFile' = keyFile
       /\ keyFile' # keyFile => run = "down" /\ result'.op = "init" /\ keyFile' \in FreshKeys
       /\ run' = "up" => key' = keyFile']_vars

\* a second start with the key generated at the first one
C17_Witness ==
    /\ run = "up" /\ result.op = "init" /\ steps >= 1
    /\ keyFile \in FreshKeys /\ key = keyFile

\* the database after add has been applied for rows 1..n of a file
RECURSIVE RowsApplied(_, _, _)
RowsApplied(pw, rows, n) ==
    IF n = 0 THEN pw
    ELSE LET before == RowsApplied(pw, rows, n - 1)
             category == IF rows[n].category = None THEN "1" ELSE rows[n].category
         IN AddPassword(before, rows[n].service, rows[n].username, rows[n].password,
                        category, NoTags).pw

\* C18: import has no rollback: when a row raises, the import stops at that
\* row and returns false, every row applied before it stays applied in memory
\* and in the blob, and no later row is applied.
C18_ImportNoRollback ==
    [][(/\ run = "up" /\ result'.op = "import" /\ result'.ret = "False"
        /\ result'.call.csv_file.opens)
       => LET rows == result'.call.csv_file.rows
          IN \E k \in 1..Len(rows) :
               LET before == RowsApplied(passwords, rows, k - 1)
               IN /\ passwords' \in {before, RowsApplied(passwords, rows, k)}
                  /\ k > 1 => load_passwords(blob', key') = Loaded(before)]_vars

\* C19: an imported row without a category field is upserted under the
\* category "1", not under "Internet"; a row with a category field is
\* upserted under that category; imported records get an empty tag list.
C19_ImportCategory ==
    [][(/\ run = "up" /\ result'.op = "import" /\ run' = "up" /\ faulted' = faulted
        /\ result'.call.csv_file.opens)
       => LET rows == result'.call.csv_file.rows
              Good(n) == \A m \in 1..n : ~rows[m].bad
              Under(n) == IF rows[n].category = None THEN "1" ELSE rows[n].category
              named == {Under(n) : n \in {m \in 1..Len(rows) : Good(m)}}
          IN /\ \A n \in 1..Len(rows) :
                  Good(n) =>
                    /\ HasRecord(passwords'.cats, Under(n), rows[n].service)
                    /\ DictGet(DictGet(passwords'.cats, Under(n)), rows[n].service)
                         = Rec(rows[n].username, rows[n].password, TRUE, <<>>)
             /\ \A i \in 1..Len(passwords.cats) :
                  passwords.cats[i].k \notin named => passwords'.cats[i] = passwords.cats[i]]_vars

\* a row without category has been imported into a store that holds Mail in
\* Internet with other values
C19_Witness ==
    /\ run = "up" /\ result.op = "import" /\ result.ret = "True"
    /\ result.call.csv_file.rows = <<Row("Mail", "alice", "s3cr3t", None, FALSE)>>
    /\ DictGet(DictGet(passwords.cats, "1"), "Mail") = Rec("alice", "s3cr3t", TRUE, <<>>)
    /\ HasRecord(passwords.cats, "Internet", "Mail")
    /\ DictGet(DictGet(passwords.cats, "Internet"), "Mail").username = "Git-User"

\* the position of a record in the store: category index, service index
Position(cats, row) ==
    LET i == DictIndex(cats, row.category)
    IN <<i, DictIndex(cats[i].v, row.service)>>

\* C20: export emits exactly one row (category, service, username, password)
\* per stored record, grouped by category in category insertion order and in
\* service insertion order within a category; no record is omitted or
\* duplicated and no tags are written.
C20_ExportRows ==
    (run = "up" /\ result.op = "export" /\ result.ret = "True")
    => LET rows == result.val
           cats == passwords.cats
       IN /\ Len(rows) = Cardinality(Records(cats))
          /\ \A n \in 1..Len(rows) :
                /\ DOMAIN rows[n] = {"category", "service", "username", "password"}
                /\ HasRecord(cats, rows[n].category, rows[n].service)
                /\ LET creds == DictGet(DictGet(cats, rows[n].category), rows[n].service)
                   IN rows[n].username = creds.username /\ rows[n].password = creds.password
          /\ \A n \in 1..Len(rows), m \in 1..Len(rows) :
                n < m => LET p == Position(cats, rows[n])
                             q == Position(cats, rows[m])
                         IN p[1] < q[1] \/ (p[1] = q[1] /\ p[2] < q[2])

\* a store with two services in one category and a tagged record is exported
C20_Witness ==
    /\ run = "up" /\ result.op = "export" /\ result.ret = "True"
    /\ Len(result.val) = 3
    /\ Len(DictGet(passwords.cats, "Internet")) = 2
    /\ \E r \in Records(passwords.cats) : r[3].tags = <<"work">>

----------------------------------------------------------------------------
(* A session on a fresh store: no key file, no blob file *)

ScenarioOps == 5

ScenarioInit == Init /\ keyFile = "none" /\ blob = Absent

\* the calls of the session: add, get, search and delete by service name
ScenarioNext ==
    \/ Start
    \/ steps < ScenarioOps /\ \E s \in Services, t \in AddTagArgs :
          add_password(s, "alice", "s3cr3t", "Internet", t)
    \/ steps < ScenarioOps /\ \E s \in Services : get_password(s, None)
    \/ steps < ScenarioOps /\ search_password("mail", None, "work")
    \/ steps < ScenarioOps /\ \E s \in Services : delete_password(s, None)

Scenario == ScenarioInit /\ [][ScenarioNext]_vars

\* the database of a fresh store, and the one holding the record of the session
EmptyStore ==
    Obj("dict", [n \in 1..Len(DefaultCategories) |-> [k |-> DefaultCategories[n], v |-> <<>>]])
MailRecord == Rec("alice", "s3cr3t", TRUE, <<"work">>)
MailStore ==
    Obj("dict", [EmptyStore.cats EXCEPT ![1].v = <<[k |-> "Mail", v |-> MailRecord]>>])

\* C21: on a fresh store, after add("Mail", "alice", "s3cr3t", "Internet",
\* ["work"]) the store holds that one record; get("Mail") then returns
\* {alice, s3cr3t, [work]}; search("mail", tag="work") returns exactly that one
\* record; delete("Mail") succeeds and leaves the store empty; and after
\* delete("Mail") has returned success, get("Mail") returns not-found.
C21_EndToEnd ==
    [][/\ (/\ run = "up" /\ steps = 0 /\ passwords = EmptyStore
           /\ result'.op = "add" /\ result'.ret = "None"
           /\ result'.call = Call("Mail", "alice", "s3cr3t", "Internet",
                                  [given |-> TRUE, list |-> <<"work">>]))
          => passwords' = MailStore
       /\ (/\ run = "up" /\ passwords = MailStore
           /\ result'.op = "get" /\ result'.call.service = "Mail")
          => result'.ret = "record" /\ result'.val = MailRecord
       /\ (/\ run = "up" /\ passwords = MailStore /\ result'.op = "search")
          => result'.val = <<[k |-> "Mail", v |-> MailRecord]>>
       /\ (/\ run = "up" /\ passwords = MailStore /\ faulted' = faulted
           /\ result'.op = "delete" /\ result'.call.service = "Mail")
          => result'.ret = "True" /\ passwords' = EmptyStore
       /\ (/\ run = "up" /\ result.op = "delete" /\ result.ret = "True"
           /\ result.call.service = "Mail"
           /\ result'.op = "get" /\ result'.call.service = "Mail")
          => result'.ret = "None"
      ]_vars

\* the session has run to its end: the record was added and found (three
\* saves with the one that created the store), then deleted, and the last
\* get("Mail") returned not-found
C21_Witness ==
    /\ steps = ScenarioOps /\ nonce = 3 /\ ~faulted
    /\ passwords = EmptyStore
    /\ result.op = "get" /\ result.call.service = "Mail" /\ result.ret = "None"

----------------------------------------------------------------------------
(* check_password_strength: a password is a sequence of characters *)

MaxPieces == 3

\* the passwords are made of at most MaxPieces of these pieces
Pieces ==
    { <<"Q">>, <<"z", "z", "z", "z">>, <<"7">>, <<"!">>,
      <<"A", "d", "m", "i", "n">>, <<"Q", "z", "7", "!", "z", "z">> }

RECURSIVE PasswordsOf(_)
PasswordsOf(n) ==
    IF n = 0 THEN {<<>>}
    ELSE LET shorter == PasswordsOf(n - 1)
         IN shorter \cup {p \o w : p \in shorter, w \in Pieces}

Passwords == PasswordsOf(MaxPieces)

\* c.isupper(), c.islower(), c.isdigit(), c.isalnum() of the characters used
IsUpper(c) == c \in {"Q", "A"}
IsLower(c) == c \in {"z", "d", "m", "i", "n"}
IsDigit(c) == c \in {"7"}
IsAlnum(c) == IsUpper(c) \/ IsLower(c) \/ IsDigit(c)

IsSymbol(c) == ~IsAlnum(c)

\* any(c.isupper() for c in password), lines 1250, 1256, 1262, 1268
HasUpper(password) == \E n \in 1..Len(password) : IsUpper(password[n])
HasLower(password) == \E n \in 1..Len(password) : IsLower(password[n])
HasDigit(password) == \E n \in 1..Len(password) : IsDigit(password[n])
HasSymbol(password) == \E n \in 1..Len(password) : IsSymbol(password[n])

\* password.lower()
LowerOf(password) == [n \in 1..Len(password) |-> LowerChar(password[n])]

\* common_patterns, line 1275
CommonPatterns ==
    { <<"1", "2", "3", "4", "5", "6">>, <<"p", "a", "s", "s", "w", "o", "r", "d">>,
      <<"q", "w", "e", "r", "t", "y">>, <<"a", "d", "m", "i", "n">> }

\* lines 1276: any(pattern in password.lower() for pattern in common_patterns)
HasCommonPattern(password) == \E w \in CommonPatterns : Contains(w, LowerOf(password))

\* mutant: the longest passwords earn less than the middle ones
LengthScore_short(password) ==
    IF Len(password) < 8 THEN 0 ELSE IF Len(password) >= 12 THEN 5 ELSE 10

\* lines 1241-1247
LengthScore(password) ==
    IF Len(password) < 8 THEN 0 ELSE IF Len(password) >= 12 THEN 25 ELSE 10

\* lines 1249-1279: the score can be negative
Score(password) ==
    LET plus == LengthScore(password)
                + (IF HasUpper(password) THEN 10 ELSE 0)
                + (IF HasLower(password) THEN 10 ELSE 0)
                + (IF HasDigit(password) THEN 10 ELSE 0)
                + (IF HasSymbol(password) THEN 15 ELSE 0)
    IN IF HasCommonPattern(password) THEN plus - 20 ELSE plus

\* lines 1280-1292
Strength(score) ==
    IF score < 30 THEN "Weak"
    ELSE IF score < 50 THEN "Moderate"
    ELSE IF score < 70 THEN "Strong"
    ELSE "Very Strong"

\* lines 1241-1278: the feedback items, in the order they are appended
Feedback(password) ==
    (IF Len(password) < 8 THEN <<"Password is too short (minimum 8 characters)">> ELSE <<>>)
    \o (IF HasUpper(password) THEN <<>> ELSE <<"Add uppercase letters">>)
    \o (IF HasLower(password) THEN <<>> ELSE <<"Add lowercase letters">>)
    \o (IF HasDigit(password) THEN <<>> ELSE <<"Add numbers">>)
    \o (IF HasSymbol(password) THEN <<>> ELSE <<"Add special characters">>)
    \o (IF HasCommonPattern(password) THEN <<"Avoid common patterns">> ELSE <<>>)

\* check_password_strength, lines 1236-1299: ret is the strength, val the
\* score and the feedback items
CheckPasswordStrength(password) ==
    [ret |-> Strength(Score(password)),
     val |-> [score |-> Score(password), feedback |-> Feedback(password)]]

\* a call of check_password_strength: it needs no store
check_password_strength(password) ==
    /\ result' = Returned("strength", [password |-> password],
                          CheckPasswordStrength(password).ret,
                          CheckPasswordStrength(password).val)
    /\ UNCHANGED <<keyFile, blob, run, key, passwords, nonce, steps, faulted, peer>>

StrengthInit == Init /\ keyFile = "none" /\ blob = Absent

\* one call in a behaviour: the function keeps nothing between calls
StrengthNext ==
    result = NoResult /\ \E password \in Passwords : check_password_strength(password)

StrengthSpec == StrengthInit /\ [][StrengthNext]_vars

\* how the claim compares two passwords
LengthBucket(password) ==
    IF Len(password) < 8 THEN 0 ELSE IF Len(password) < 12 THEN 1 ELSE 2

Classes(password) ==
    {c \in {"upper", "lower", "digit", "symbol"} :
        \/ c = "upper" /\ HasUpper(password)
        \/ c = "lower" /\ HasLower(password)
        \/ c = "digit" /\ HasDigit(password)
        \/ c = "symbol" /\ HasSymbol(password)}

Tier(strength) ==
    CASE strength = "Weak" -> 0 [] strength = "Moderate" -> 1
      [] strength = "Strong" -> 2 [] strength = "Very Strong" -> 3

\* what the comparison needs of every password, and what the call returns for it
Profiles ==
    [password \in Passwords |->
        [common |-> HasCommonPattern(password), bucket |-> LengthBucket(password),
         classes |-> Classes(password), returned |-> CheckPasswordStrength(password)]]

\* the second password is at least as long, by bucket, and at least as varied
AtLeast(first, second) ==
    /\ Profiles[first].common = Profiles[second].common
    /\ Profiles[first].bucket <= Profiles[second].bucket
    /\ Profiles[first].classes \subseteq Profiles[second].classes

\* C23: for any two passwords that agree on the presence of a common pattern,
\* if the second has a length bucket (<8, 8..11, >=12) at least as high and a
\* superset of the character classes of the first, the score returned for the
\* second is not lower and its strength (Weak < Moderate < Strong < Very
\* Strong) is not lower.
C23_Monotone ==
    result.op = "strength" =>
        \A second \in Passwords :
            AtLeast(result.call.password, second) =>
                \A r \in {Profiles[second].returned} :
                    /\ r.val.score >= result.val.score
                    /\ Tier(r.ret) >= Tier(result.ret)

\* a weak password has been scored that a longer and more varied one, which
\* reaches the top strength, is compared with
C23_Witness ==
    /\ result.op = "strength" /\ result.ret = "Weak"
    /\ result.call.password = <<"A", "d", "m", "i", "n">>
    /\ \E second \in Passwords :
          /\ AtLeast(result.call.password, second)
          /\ Profiles[second].bucket = 2
          /\ Profiles[second].classes = {"upper", "lower", "digit", "symbol"}
          /\ Profiles[second].returned.ret = "Strong"

----------------------------------------------------------------------------
(* Errors of the public calls *)

PublicCalls ==
    {"add", "get", "update", "delete", "search", "categories", "import", "export"}

\* what a call gives its caller when it returns: None, True, False, a record,
\* a mapping of results, a list of categories
ReturnValues == {"None", "True", "False", "record", "results", "list"}

\* C22: every public call other than store initialization returns to its
\* caller, with a success or an explicit absence/failure value, also when the
\* save fails; none raises an exception, and a failed save is not tried again
\* within the call.
C22_NoRaise ==
    [][(run = "up" /\ result'.op \in PublicCalls /\ result'.ret # "crash")
       => /\ result'.ret \in ReturnValues
          /\ (faulted' # faulted /\ result'.op # "import") => nonce' = nonce]_vars

----------------------------------------------------------------------------
(* Reading calls *)

\* C24: get, search and list_categories are read-only: in every state and for
\* every argument they leave the in-memory database unchanged and save
\* nothing, so the blob file and the key file are unchanged too.
C24_ReadOnly ==
    [][(run = "up" /\ steps' = steps + 1
        /\ result'.op \in {"get", "search", "categories"})
       => /\ passwords' = passwords /\ key' = key /\ run' = run
          /\ blob' = blob /\ keyFile' = keyFile /\ nonce' = nonce]_vars

\* a search has found records in a store that had been changed and saved
C24_Witness ==
    /\ run = "up" /\ result.op = "search" /\ result.val # <<>>
    /\ nonce > 1 /\ Stored = Loaded(passwords)

----------------------------------------------------------------------------
(* Two processes on the same key file and blob file *)

SharedOps == 2

\* the blob file holds a well-formed database, or there are no files yet
SharedInit ==
    /\ Init
    /\ \/ keyFile = "none" /\ blob = Absent
       \/ keyFile = OldKey /\ blob \in {Encrypt(OldKey, 0, Dumps(LegacyDb)),
                                        Encrypt(OldKey, 0, Dumps(PartialDb))}

\* the scheduler: the other process takes the next steps.  Nothing in the
\* code makes a process wait for the other one: no lock is taken on the files
Switch ==
    /\ run' = peer.run /\ key' = peer.key /\ passwords' = peer.passwords
    /\ peer' = Process(run, key, passwords)
    /\ UNCHANGED <<keyFile, blob, nonce, result, steps, faulted>>

SharedNext ==
    \/ Start
    \/ Switch
    \/ steps < SharedOps /\ \E s \in Services, t \in AddTagArgs :
          add_password(s, "alice", "s3cr3t", "Internet", t)
    \/ steps < SharedOps /\ \E s \in Services : delete_password(s, None)

Shared == SharedInit /\ [][SharedNext]_vars

\* C25: there is no exclusion between processes: every completed save of a
\* mutation writes the whole in-memory database of the process that saves,
\* whatever the other process holds, so the blob afterwards is the database of
\* the process whose save ran last, and a record that only the other process
\* holds is absent from it.
C25_LastWriterWins ==
    [][(/\ run = "up" /\ steps' = steps + 1 /\ nonce' = nonce + 1
        /\ result'.op \in {"add", "delete"})
       => \A after \in {load_passwords(blob', keyFile')} :
            /\ after = Loaded(passwords')
            /\ \A r \in Records(peer.passwords.cats) \ Records(passwords'.cats) :
                  r \notin Records(after.val.cats)]_vars

\* the lost update: both processes hold a store that was created empty and,
\* after two calls in all, each holds a service the other does not hold (each
\* has added one to what both had loaded), and the blob is the database of the
\* one that saved last, without the service of the other
C25_Witness ==
    LET Names(cats) == {<<r[1], r[2]>> : r \in Records(cats)}
    IN /\ run = "up" /\ peer.run = "up" /\ steps = 2 /\ ~faulted
       /\ keyFile \in FreshKeys
       /\ result.op = "add"
       /\ Stored = Loaded(passwords)
       /\ Names(peer.passwords.cats) \ Names(passwords.cats) # {}
       /\ Names(passwords.cats) \ Names(peer.passwords.cats) # {}
       /\ Names(peer.passwords.cats) \ Names(Stored.val.cats) # {}

----------------------------------------------------------------------------
(* What migration leaves alone *)

\* the legacy category whose services migration moves to the category, if the
\* loaded database has one ("" when it has none)
LegacySource(cats, category) ==
    LET from == {n \in 1..Len(OldCategories) :
                    /\ n <= Len(DefaultCategories) /\ DefaultCategories[n] = category
                    /\ DictHas(cats, OldCategories[n])}
    IN IF from = {} THEN "" ELSE OldCategories[CHOOSE n \in from : TRUE]

\* C26: migration changes a record outside the legacy categories only by
\* collision: a service of a non-legacy category that is also a service of
\* the legacy category mapped to it gets the legacy record; every other
\* record of every non-legacy category is the same after migration.
C26_MigrationFrame ==
    [][(run = "down" /\ run' = "up" /\ result'.note = "migrated")
       => \A found \in {Found.cats}, after \in {passwords'.cats} :
            \A i \in 1..Len(found) :
               found[i].k \notin Range(OldCategories) =>
                  \A old \in {LegacySource(found, found[i].k)} :
                     \A j \in 1..Len(found[i].v) :
                        LET service == found[i].v[j].k
                        IN /\ HasRecord(after, found[i].k, service)
                           /\ DictGet(DictGet(after, found[i].k), service) =
                                 IF old # "" /\ HasRecord(found, old, service)
                                 THEN DictGet(DictGet(found, old), service)
                                 ELSE found[i].v[j].v]_vars

\* a store that held Mail under "Internet" with the tag "work" has imported
\* a Mail row without category and has been started again: migration has put
\* the imported record in the place of the one "Internet" held
C26_Witness ==
    /\ run = "up" /\ steps = 1 /\ result.op = "init" /\ result.note = "migrated"
    /\ DictHas(passwords.cats, "Work")
    /\ HasRecord(passwords.cats, "Internet", "Mail")
    /\ DictGet(DictGet(passwords.cats, "Internet"), "Mail") = Rec("alice", "s3cr3t", TRUE, <<>>)

----------------------------------------------------------------------------
(* The category of a row imported without category *)

\* the blob file, loaded with the key in the key file, shows the category
InBlob(file, k, category) ==
    \E l \in {load_passwords(file, k)} :
        l.ret = "ok" /\ l.val.kind = "dict" /\ DictHas(l.val.cats, category)

\* the services a call names
Named(res) ==
    CASE res.op \in {"add", "update", "delete"} -> {res.call.service}
      [] res.op = "import" ->
            {res.call.csv_file.rows[n].service : n \in 1..Len(res.call.csv_file.rows)}
      [] OTHER -> {}

\* C27: a record imported without a category is under category "1" when the
\* import returns; while the process runs, category "1" stays in memory, in
\* the list of categories and in the blob, and its records change only by a
\* call that names them; the next store initialization puts every record of
\* "1" under "Internet", in the place of any record of the same service
\* name, and removes category "1".
C27_ImportedStaysLegacy ==
    [][/\ (/\ run = "up" /\ result'.op = "import" /\ result'.ret = "True")
          => \A n \in 1..Len(result'.call.csv_file.rows) :
                LET row == result'.call.csv_file.rows[n]
                IN row.category = None
                     => /\ HasRecord(passwords'.cats, "1", row.service)
                        /\ InBlob(blob', keyFile', "1")
       /\ (/\ run = "up" /\ run' = "up" /\ DictHas(passwords.cats, "1"))
          => /\ DictHas(passwords'.cats, "1")
             /\ \A j \in 1..Len(DictGet(passwords.cats, "1")) :
                   LET e == DictGet(passwords.cats, "1")[j]
                   IN e.k \notin Named(result')
                        => /\ HasRecord(passwords'.cats, "1", e.k)
                           /\ DictGet(DictGet(passwords'.cats, "1"), e.k) = e.v
             /\ result'.op = "categories" => "1" \in Range(result'.val)
             /\ InBlob(blob, keyFile, "1") => InBlob(blob', keyFile', "1")
       /\ (/\ run = "down" /\ run' = "up" /\ InBlob(blob, keyFile', "1"))
          => \A found \in {Found.cats} :
                /\ ~DictHas(passwords'.cats, "1")
                /\ ~InBlob(blob', keyFile', "1")
                /\ \A j \in 1..Len(DictGet(found, "1")) :
                      LET e == DictGet(found, "1")[j]
                      IN /\ HasRecord(passwords'.cats, "Internet", e.k)
                         /\ DictGet(DictGet(passwords'.cats, "Internet"), e.k) = e.v
      ]_vars

----------------------------------------------------------------------------
(* A mutating call whose save fails *)

\* the change the call makes is in the database: the record added, the
\* credentials of the update, one record of the service less after a delete
Changed(res, before, after) ==
    CASE res.op = "add" ->
            /\ HasRecord(after.cats, res.call.category, res.call.service)
            /\ DictGet(DictGet(after.cats, res.call.category), res.call.service)
                  = Rec(res.call.username, res.call.password, TRUE,
                        IF res.call.tags.given THEN res.call.tags.list ELSE <<>>)
      [] res.op = "update" ->
            \E r \in Records(after.cats) :
                /\ r[2] = res.call.service
                /\ r[3].username = res.call.username
                /\ r[3].password = res.call.password
      [] res.op = "delete" ->
            \E r \in Records(before.cats) :
                /\ r[2] = res.call.service
                /\ Records(after.cats) = Records(before.cats) \ {r}

\* C28: add, update and delete change the in-memory database before they
\* save: when the save fails, the call ends in error with the change in
\* memory and the blob still holding the database it held before the call;
\* the next save that succeeds writes the whole in-memory database, that
\* change together with the later one.
C28_ChangeBeforeSave ==
    [][(run = "up" /\ steps' = steps + 1 /\ result'.op \in {"add", "update", "delete"})
       => /\ result'.ret = "OSError"
             => /\ run' = "up"
                /\ Changed(result', passwords, passwords')
                /\ blob' = blob
          /\ (run' = "up" /\ nonce' = nonce + 1)
             => /\ Changed(result', passwords, passwords')
                /\ load_passwords(blob', keyFile') = Loaded(passwords')]_vars

====
